---------------------------- MODULE Spec2Model ----------------------------
(***************************************************************************)
(* Generation-request orchestration of the goods_gallery repository:       *)
(*   - RateLimiter                      (src/utils/rateLimiter.ts)         *)
(*   - GeminiImageService.generateDesign (src/unnamed/part_000)            *)
(*   - generateCreativeDesign, callGeminiImageAPI, handleGenericError,     *)
(*     retryWithBackoff                 (src/unnamed/part_001)             *)
(*   - DesignStorageService     (src/services/designStorageService.ts)     *)
(*   - useCreativeDesignState   (src/hooks/useCreativeDesignState.ts)      *)
(* Each component has a specification of its own over the shared           *)
(* variables; the variables of the other components keep their initial     *)
(* values.                                                                 *)
(***************************************************************************)
EXTENDS Integers, Sequences, FiniteSets, TLC

VARIABLES
    \* ---- RateLimiter (rateLimiter.ts:24-25) and the clock Date.now()
    requests,     \* RateLimiter.requests: timestamps of the admitted requests
    config,       \* RateLimiter.config: [maxRequests, windowMs]
    now,          \* Date.now()
    \* ---- what the callers of the limiter observe
    rlLast,       \* the last limiter call: its name, time and result
    admitLog,     \* times of the admissions since construction or reset()
    lastReject,   \* the last rejection not yet followed by an admission
    \* ---- GeminiImageService (part_000:23-37) and one generateDesign call
    ai,           \* GeminiImageService.ai is set (an API key was configured)
    svcPc,        \* "idle" | "calling" | "decoding" | "done"
    svcReq,       \* the GenerateDesignRequest of the call in progress
    svcCalls,     \* invocations of ai.models.generateContent by this call
    svcResult,    \* what the promise of generateDesign settled with
    svcObs,       \* what a caller observes around the call
    \* ---- generateCreativeDesign and retryWithBackoff (part_001)
    genAi,        \* the module's GoogleGenAI client "ai" is set
    genPc,        \* "idle" | "attempt" | "backoff" | "done"
    genReq,       \* the GenerateDesignRequest of the call in progress
    retryCfg,     \* retryWithBackoff's [maxAttempts, baseDelay]
    attempt,      \* retryWithBackoff's loop variable
    call,         \* the current attempt's callGeminiImageAPI: "none" | "pending" | "refused"
    orphans,      \* external calls that lost the race with their timeout and still run
    opCalls,      \* invocations of operation() by retryWithBackoff
    apiCalls,     \* invocations of ai.models.generateContent
    delays,       \* the backoff delays retryWithBackoff has set, in order
    attemptErrors,\* what each failed attempt of operation() rejected with
    runOutcome,   \* what retryWithBackoff settled with
    genResult,    \* what generateCreativeDesign settled with
    \* ---- DesignStorageService (designStorageService.ts) and its object store
    db,           \* DesignStorageService.db is set (the connection is open)
    store,        \* the records of the object store "designs", one per key
    insertLog,    \* keys of the stored records, in the order they were inserted
    lastSaved,    \* the design handed to the last successful saveDesign
    stLast,       \* the last storage call: its name, argument and result
    \* ---- useCreativeDesignState (useCreativeDesignState.ts) and localStorage
    ls,           \* localStorage under the persistence key: Null or the parsed item
    mounted,      \* the hook is mounted
    hookProps,    \* the options of the current render: [artifactId, enablePersistence]
    hookState,    \* the CreativeDesignPanelState held by useState
    drLast,       \* what the restore and the persist of the last hook operation did
    \* ---- the designs of successful generate calls and their hand-over to storage
    generated,    \* the GeneratedDesign records of the successful calls, in order
    savedCount    \* how many of them were handed to saveDesign

rlVars == <<requests, config, now, rlLast, admitLog, lastReject>>

svcVars == <<ai, svcPc, svcReq, svcCalls, svcResult, svcObs>>

genVars == <<genAi, genPc, genReq, retryCfg, attempt, call, orphans, opCalls,
             apiCalls, delays, attemptErrors, runOutcome, genResult>>

stVars == <<db, store, insertLog, lastSaved, stLast>>

drVars == <<ls, mounted, hookProps, hookState, drLast>>

idVars == <<generated, savedCount>>

vars == <<requests, config, now, rlLast, admitLog, lastReject,
          ai, svcPc, svcReq, svcCalls, svcResult, svcObs,
          genAi, genPc, genReq, retryCfg, attempt, call, orphans, opCalls,
          apiCalls, delays, attemptErrors, runOutcome, genResult,
          db, store, insertLog, lastSaved, stLast,
          ls, mounted, hookProps, hookState, drLast,
          generated, savedCount>>

---------------------------------------------------------------------------
(* Bounds of the model. *)

MaxRequestsBound == 2   \* maxRequests ranges over 1..MaxRequestsBound
MaxWindow        == 3   \* windowMs ranges over 1..MaxWindow
MaxNow           == 5   \* the clock of the stand-alone limiter stops here

---------------------------------------------------------------------------
(* Helpers. *)

RECURSIVE SelectSeqBy(_, _, _)
\* Array.prototype.filter with the limiter's predicate: keeps, in order, the
\* timestamps that InWindow(t, time, windowMs) accepts.
\* A variant of the filter that drops a timestamp after half the window.
InWindowHalf(t, time, windowMs) == 2 * (time - t) < windowMs

InWindowLe(t, time, windowMs) == time - t <= windowMs

InWindow(t, time, windowMs) == time - t < windowMs

SelectSeqBy(s, time, windowMs) ==
    IF s = << >> THEN << >>
    ELSE IF InWindow(Head(s), time, windowMs)
         THEN <<Head(s)>> \o SelectSeqBy(Tail(s), time, windowMs)
         ELSE SelectSeqBy(Tail(s), time, windowMs)

\* The pruning both checkLimit and getRemainingRequests start with.
Prune(reqs, time, cfg) == SelectSeqBy(reqs, time, cfg.windowMs)

NoReject == [at |-> -1, waitTime |-> -1]

NoCall == [op |-> "none", afterReset |-> FALSE, at |-> 0, ok |-> TRUE,
           waitTime |-> 0, value |-> 0, recovered |-> FALSE]

Call(op, ok, waitTime, value, recovered) ==
    [op |-> op, afterReset |-> (op = "remaining" /\ rlLast.op = "reset"), at |-> now,
     ok |-> ok, waitTime |-> waitTime, value |-> value, recovered |-> recovered]

---------------------------------------------------------------------------
(* Values thrown and returned by the generation services. *)

\* String.prototype.includes
Includes(s, p) ==
    \E i \in 1..(Len(s) - Len(p) + 1) : SubSeq(s, i, i + Len(p) - 1) = p

\* Math.ceil(a / b) for a >= 0, b > 0
CeilDiv(a, b) == (a + b - 1) \div b

\* DesignError.details left undefined
NoDetails == [kind |-> "undefined"]

\* createError (part_000:208-220) and createDesignError (part_001:357-374):
\* the DesignError object literal {type, message, retryable, details}.
DesignError(type, message, retryable, details) ==
    [type |-> type, message |-> message, retryable |-> retryable, details |-> details]

\* new Error(message): a JavaScript Error with the given name.
JsError(name, message) == [name |-> name, message |-> message]

\* A thrown value that is no Error object and has no "type" property.
NonErrorValue(text) == [thrown |-> text]

\* (error as DesignError).type is truthy
HasType(e) == "type" \in DOMAIN e

\* error instanceof Error
IsError(e) == "name" \in DOMAIN e /\ ~HasType(e)

\* new RateLimitError(message, waitTime) (rateLimiter.ts:13-18, 46-49); the
\* message reads "please wait <ceil(waitTime / 1000)> s" in Chinese.
RateLimitError(waitTime) ==
    [name |-> "RateLimitError",
     message |-> "wait " \o ToString(CeilDiv(waitTime, 1000)) \o " s and retry",
     waitTime |-> waitTime]

\* A prompt string, by its leading white space, its trimmed body and its
\* trailing white space (lengths in UTF-16 code units).
PromptText(lead, body, trail) == [lead |-> lead, body |-> body, trail |-> trail]

\* prompt.length
PromptLength(p) == p.lead + p.body + p.trail

\* prompt.trim().length
TrimLength(p) == p.body

\* A reference image string: absent (undefined), or the text up to its first
\* comma, whether a comma follows, and the length of the base64 payload
\* between the first comma and the next.
NoImage == [defined |-> FALSE, head |-> "", comma |-> FALSE, payload |-> 0]

ImageText(head, comma, payload) ==
    [defined |-> TRUE, head |-> head, comma |-> comma, payload |-> payload]

\* !request.referenceImage: undefined or the empty string
ImageFalsy(img) == ~img.defined \/ (img.head = "" /\ ~img.comma)

\* referenceImage.startsWith('data:image/')
StartsWithDataImage(img) ==
    Len(img.head) >= Len("data:image/") /\ SubSeq(img.head, 1, Len("data:image/")) = "data:image/"

\* (referenceImage.includes(',') ? referenceImage.split(',')[1]
\*                                : referenceImage).length
Base64ImageLength(img) == IF img.comma THEN img.payload ELSE Len(img.head)

\* The promise of a generate call: not settled, resolved or rejected.
Unsettled == [status |-> "pending"]

Resolved(design) == [status |-> "resolved", design |-> design]

Rejected(error) == [status |-> "rejected", error |-> error]

NoRequest == [prompt |-> PromptText(0, 0, 0), referenceImage |-> NoImage,
              style |-> "undefined", aspectRatio |-> "undefined"]

NoObs == [remBefore |-> 0, remAfter |-> 0, atCapacity |-> FALSE,
          failure |-> NonErrorValue("none")]

\* ---- values of the DesignStorageService

\* generateDesignId (imageUtils.ts:198-200): "design-<ms>-<random>"; the key
\* is kept as its two parts.
GenerateDesignId(ms, rand) == [ms |-> ms, rand |-> rand]

\* The order of two keys in the object store: the order of the id strings,
\* which is the order of <ms> and, for the same <ms>, of <random>.
KeyLess(a, b) == a.ms < b.ms \/ (a.ms = b.ms /\ a.rand < b.rand)

\* A GeneratedDesign as the store sees it: key path "id", the indexed
\* "artifactId" and "timestamp" (part_000:105-121).
GeneratedDesign(id, artifactId) ==
    [id |-> id, timestamp |-> id.ms, artifactId |-> artifactId]

\* request.error of a failed IndexedDB request.
DomException(name) == JsError(name, "the request failed")

\* null, as getDesign returns it (designStorageService.ts:101).
Null == [null |-> TRUE]

NoStorageCall ==
    [op |-> "none", arg |-> Null, ok |-> TRUE, error |-> Null, value |-> Null]

StorageCall(op, arg, ok, error, value) ==
    [op |-> op, arg |-> arg, ok |-> ok, error |-> error, value |-> value]

\* The DesignStorageService before init(), on an empty database.
InitStorageIdle ==
    /\ db = FALSE
    /\ store = {}
    /\ insertLog = << >>
    /\ lastSaved = Null
    /\ stLast = NoStorageCall

\* No generate call has succeeded yet.
InitIdsIdle ==
    /\ generated = << >>
    /\ savedCount = 0

\* ---- values of useCreativeDesignState

\* DesignStyle.MODERN, the default style (part_003:16).
DefaultStyle == "modern"

\* DEFAULT_DESIGN_STATE (part_003:13-21).
DEFAULT_STATE ==
    [screenshot |-> Null, prompt |-> "", style |-> DefaultStyle, aspectRatio |-> "1:1",
     isGenerating |-> FALSE, generatedDesign |-> Null, error |-> Null]

NoHookCall == [restored |-> Null, purged |-> "none", persist |-> "none"]

\* The hook before it is mounted, with an empty localStorage.
InitHookIdle ==
    /\ ls = Null
    /\ mounted = FALSE
    /\ hookProps = [artifactId |-> "art-1", enablePersistence |-> TRUE]
    /\ hookState = DEFAULT_STATE
    /\ drLast = NoHookCall

\* The GeminiImageService before any generateDesign call.
InitServiceIdle ==
    /\ ai = FALSE
    /\ svcPc = "idle"
    /\ svcReq = NoRequest
    /\ svcCalls = 0
    /\ svcResult = Unsettled
    /\ svcObs = NoObs

MAX_RETRY_ATTEMPTS == 3

RETRY_DELAY_MS == 1000

API_TIMEOUT_MS == 30000

\* generateCreativeDesign before any call.
InitGenerateIdle ==
    /\ genAi = FALSE
    /\ genPc = "idle"
    /\ genReq = NoRequest
    /\ retryCfg = [maxAttempts |-> MAX_RETRY_ATTEMPTS, baseDelay |-> RETRY_DELAY_MS]
    /\ attempt = 0
    /\ call = "none"
    /\ orphans = 0
    /\ opCalls = 0
    /\ apiCalls = 0
    /\ delays = << >>
    /\ attemptErrors = << >>
    /\ runOutcome = Unsettled
    /\ genResult = Unsettled

---------------------------------------------------------------------------
(* RateLimiter *)

\* checkLimit as a function of the limiter's state: the pruned list, whether
\* the call is admitted, the wait time thrown otherwise, and the list after.
CheckLimitPushFirst(reqs, time, cfg) ==
    LET pruned   == Prune(reqs, time, cfg) \o <<time>>
        rejected == Len(pruned) > cfg.maxRequests
    IN  [ok       |-> ~rejected,
         waitTime |-> IF rejected THEN cfg.windowMs - (time - pruned[1]) ELSE 0,
         requests |-> pruned]

\* A variant of checkLimit that records the time of a rejected call too.
CheckLimitRecordRejected(reqs, time, cfg) ==
    LET pruned   == Prune(reqs, time, cfg)
        rejected == Len(pruned) >= cfg.maxRequests
    IN  [ok       |-> ~rejected,
         waitTime |-> IF rejected THEN cfg.windowMs - (time - pruned[1]) ELSE 0,
         requests |-> pruned \o <<time>>]

CheckLimitResult(reqs, time, cfg) ==
    LET pruned   == Prune(reqs, time, cfg)
        rejected == Len(pruned) >= cfg.maxRequests
    IN  [ok       |-> ~rejected,
         waitTime |-> IF rejected THEN cfg.windowMs - (time - pruned[1]) ELSE 0,
         requests |-> IF rejected THEN pruned ELSE pruned \o <<time>>]

\* RateLimiter.checkLimit(), on the limiter's own state
CheckLimitStep ==
    LET r == CheckLimitResult(requests, now, config)
        due == lastReject # NoReject /\ now = lastReject.at + lastReject.waitTime
    IN  /\ requests' = r.requests
        /\ rlLast' = Call("checkLimit", r.ok, r.waitTime, 0, r.ok /\ due)
        /\ admitLog' = IF r.ok THEN admitLog \o <<now>> ELSE admitLog
        /\ lastReject' = IF r.ok THEN NoReject
                         ELSE [at |-> now, waitTime |-> r.waitTime]
        /\ UNCHANGED <<config, now>>

\* RateLimiter.checkLimit() called on its own
CheckLimit == CheckLimitStep /\ UNCHANGED <<svcVars, genVars, stVars, idVars, drVars>>

\* RateLimiter.getRemainingRequests()
GetRemainingRequests ==
    LET pruned == Prune(requests, now, config)
    IN  /\ requests' = pruned
        /\ rlLast' = Call("remaining", TRUE, 0, config.maxRequests - Len(pruned), FALSE)
        /\ UNCHANGED <<config, now, admitLog, lastReject>>
        /\ UNCHANGED <<svcVars, genVars, stVars, idVars, drVars>>

\* RateLimiter.getResetTime()
GetResetTime(reqs, cfg) ==
    IF Len(reqs) = 0 THEN 0 ELSE reqs[1] + cfg.windowMs

\* RateLimiter.getTimeUntilReset(): reads the list as it is, without pruning
GetTimeUntilReset ==
    LET resetTime == GetResetTime(requests, config)
        value == IF resetTime = 0 THEN 0
                 ELSE IF resetTime - now > 0 THEN resetTime - now ELSE 0
    IN  /\ rlLast' = Call("timeUntilReset", TRUE, 0, value, FALSE)
        /\ UNCHANGED <<requests, config, now, admitLog, lastReject>>
        /\ UNCHANGED <<svcVars, genVars, stVars, idVars, drVars>>

\* RateLimiter.reset()
Reset ==
    /\ requests' = << >>
    /\ rlLast' = Call("reset", TRUE, 0, 0, FALSE)
    /\ admitLog' = << >>
    /\ lastReject' = NoReject
    /\ UNCHANGED <<config, now>>
    /\ UNCHANGED <<svcVars, genVars, stVars, idVars, drVars>>

\* Date.now() moves on by one millisecond.
Tick ==
    /\ now < MaxNow
    /\ now' = now + 1
    /\ UNCHANGED <<requests, config, rlLast, admitLog, lastReject>>
    /\ UNCHANGED <<svcVars, genVars, stVars, idVars, drVars>>

\* new RateLimiter(config), for any maxRequests >= 1 and windowMs > 0
InitRateLimiter ==
    /\ requests = << >>
    /\ config \in [maxRequests : 1..MaxRequestsBound, windowMs : 1..MaxWindow]
    /\ now = 0
    /\ rlLast = NoCall
    /\ admitLog = << >>
    /\ lastReject = NoReject
    /\ InitServiceIdle
    /\ InitGenerateIdle
    /\ InitStorageIdle
    /\ InitIdsIdle
    /\ InitHookIdle

NextRateLimiter ==
    \/ CheckLimit
    \/ GetRemainingRequests
    \/ GetTimeUntilReset
    \/ Reset
    \/ Tick

SpecRateLimiter == InitRateLimiter /\ [][NextRateLimiter]_vars

---------------------------------------------------------------------------
(* Claims about the RateLimiter, checked under SpecRateLimiter. *)

\* The admissions since construction or reset() number at least maxRequests
\* and the maxRequests most recent of them lie within windowMs of now.
AtCapacityNow ==
    /\ Len(admitLog) >= config.maxRequests
    /\ now - admitLog[Len(admitLog) - config.maxRequests + 1] < config.windowMs

\* C1: after maxRequests successful checkLimit() calls made within windowMs
\* the next checkLimit() fails with a wait time > 0, and the checkLimit()
\* made when that wait time has elapsed (now = rejection time + waitTime,
\* no reset() or admission in between) succeeds.
C1_RejectThenRecover ==
    [][ /\ (CheckLimit /\ AtCapacityNow)
            => (~rlLast'.ok /\ rlLast'.waitTime > 0)
        /\ (CheckLimit /\ lastReject # NoReject
                       /\ now = lastReject.at + lastReject.waitTime)
            => rlLast'.ok ]_vars

\* C1 witness: a checkLimit() admitted exactly when the wait time of the
\* preceding rejection had elapsed.
C1_Witness ==
    /\ rlLast.op = "checkLimit"
    /\ rlLast.ok
    /\ rlLast.recovered
    /\ rlLast.at > 0

\* C2: after N admissions that all lie inside the current window,
\* getRemainingRequests() returns maxRequests - N; and getRemainingRequests()
\* called right after reset() returns maxRequests.
C2_Remaining ==
    rlLast.op = "remaining" =>
        /\ (\A i \in DOMAIN admitLog : rlLast.at - admitLog[i] < config.windowMs)
              => rlLast.value = config.maxRequests - Len(admitLog)
        /\ rlLast.afterReset => rlLast.value = config.maxRequests

\* C2 witness: remaining() read with every slot of the window used, and
\* remaining() read right after a reset() that cleared a full window.
C2_Witness ==
    /\ rlLast.op = "remaining"
    /\ config.maxRequests > 1
    /\ Len(admitLog) = config.maxRequests
    /\ \A i \in DOMAIN admitLog : rlLast.at - admitLog[i] < config.windowMs
    /\ rlLast.value = 0

---------------------------------------------------------------------------
(* GeminiImageService (part_000): generateDesign behind its rate limiter *)

ServiceMaxRequests == 3

ServiceWindowMs == 60000

TicksPerWindow == 3     \* the service clock advances by windowMs / TicksPerWindow

MaxServiceTicks == 4    \* the service clock stops after this many advances

MaxPromptLength == 500

MaxImageBytes == 10 * 1024 * 1024

\* What ai.models.generateContent may reject with: Error objects with these
\* messages, or a value that is no Error.
ExternalMessages ==
    {"quota exceeded: network unreachable", "401 authentication failed",
     "unauthorized", "model not found", "blocked by safety filter",
     "network unreachable", "503 service unavailable", "internal failure"}

ExternalFailures ==
    {JsError("Error", m) : m \in ExternalMessages} \cup {NonErrorValue("rejected")}

Request(prompt, image, style, aspectRatio) ==
    [prompt |-> prompt, referenceImage |-> image, style |-> style, aspectRatio |-> aspectRatio]

ValidPrompt == PromptText(0, 13, 0)

ValidImage == ImageText("data:image/png;base64", TRUE, 4)

\* The requests tried: a valid one with and without style and aspect ratio,
\* and one per way of being invalid.
GenerateRequests ==
    {Request(ValidPrompt, ValidImage, "undefined", "undefined"),
     Request(ValidPrompt, ValidImage, "vintage", "16:9"),
     Request(PromptText(0, 0, 0), ValidImage, "undefined", "undefined"),
     Request(PromptText(2, 0, 0), ValidImage, "undefined", "undefined"),
     Request(PromptText(0, MaxPromptLength + 1, 0), ValidImage, "undefined", "undefined"),
     Request(PromptText(1, MaxPromptLength - 1, 2), ValidImage, "undefined", "undefined"),
     Request(ValidPrompt, NoImage, "undefined", "undefined"),
     Request(ValidPrompt, ImageText("", FALSE, 0), "undefined", "undefined"),
     Request(ValidPrompt, ImageText("blob:3d-canvas", FALSE, 0), "undefined", "undefined"),
     Request(ValidPrompt, ImageText("data:image/png;base64", TRUE, 0), "undefined", "undefined"),
     Request(ValidPrompt, ImageText("data:image/png;base64", TRUE, 13981014), "undefined", "undefined")}

\* The GeneratedDesign fields that depend on the request (part_000:105-121,
\* part_001:172-188): style defaults to DesignStyle.MODERN, aspectRatio to '1:1'.
Design(req) ==
    [prompt |-> req.prompt,
     style |-> IF req.style = "undefined" THEN "modern" ELSE req.style,
     referenceImage |-> req.referenceImage,
     aspectRatio |-> IF req.aspectRatio = "undefined" THEN "1:1" ELSE req.aspectRatio]

\* The catch block of generateDesign (part_000:125-147).
ServiceCatch(error) ==
    IF HasType(error) THEN error
    ELSE IF IsError(error) /\ (Includes(error.message, "network") \/ Includes(error.message, "fetch"))
    THEN DesignError("NETWORK_ERROR", "network connection failed, check your network", TRUE, NoDetails)
    ELSE DesignError("API_ERROR", "an error occurred while generating the design, retry", TRUE,
                     [kind |-> "error", error |-> error])

\* getRemainingRequests() as a caller would read it at time t
RemainingAt(reqs, t, cfg) == cfg.maxRequests - Len(Prune(reqs, t, cfg))

RateLimitRejectionRethrown(waitTime) == RateLimitError(waitTime)

\* The DesignError thrown for a RateLimitError (part_000:62-70).
RateLimitRejection(waitTime) ==
    DesignError("RATE_LIMIT_EXCEEDED", RateLimitError(waitTime).message, FALSE,
                [kind |-> "waitTime", waitTime |-> waitTime])

\* generateDesign up to its first suspension on the external call
\* (part_000:47-97).
GenerateDesign(req) ==
    /\ svcPc = "idle"
    /\ svcReq' = req
    /\ UNCHANGED ai
    /\ UNCHANGED <<genVars, stVars, idVars, drVars>>
    /\ IF ~ai
       THEN /\ svcResult' = Rejected(ServiceCatch(
                   DesignError("API_ERROR", "API Key not configured", TRUE, NoDetails)))
            /\ svcPc' = "done"
            /\ svcCalls' = 0
            /\ svcObs' = [remBefore |-> RemainingAt(requests, now, config),
                          remAfter |-> RemainingAt(requests, now, config),
                          atCapacity |-> AtCapacityNow,
                          failure |-> NonErrorValue("none")]
            /\ UNCHANGED rlVars
       ELSE /\ CheckLimitStep
            /\ svcObs' = [remBefore |-> RemainingAt(requests, now, config),
                          remAfter |-> RemainingAt(requests', now, config),
                          atCapacity |-> AtCapacityNow,
                          failure |-> NonErrorValue("none")]
            /\ IF ~rlLast'.ok
               THEN /\ svcResult' = Rejected(ServiceCatch(RateLimitRejection(rlLast'.waitTime)))
                    /\ svcPc' = "done"
                    /\ svcCalls' = 0
               ELSE IF PromptLength(req.prompt) = 0 \/ TrimLength(req.prompt) = 0
               THEN /\ svcResult' = Rejected(ServiceCatch(
                           DesignError("INVALID_PROMPT", "prompt must not be empty", FALSE, NoDetails)))
                    /\ svcPc' = "done"
                    /\ svcCalls' = 0
               ELSE IF ~req.referenceImage.defined
               THEN /\ svcResult' = Rejected(ServiceCatch(
                           JsError("TypeError", "Cannot read properties of undefined (reading 'includes')")))
                    /\ svcPc' = "done"
                    /\ svcCalls' = 0
               ELSE \* callGeminiAPI: ai.models.generateContent is invoked
                    /\ svcResult' = Unsettled
                    /\ svcPc' = "calling"
                    /\ svcCalls' = 1

\* ai.models.generateContent resolves: callGeminiAPI returns the reference
\* image and generateDesign awaits getImageDimensions (part_000:99-101).
ServiceCallResolves ==
    /\ UNCHANGED <<genVars, stVars, idVars, drVars>>
    /\ svcPc = "calling"
    /\ svcPc' = "decoding"
    /\ UNCHANGED <<ai, svcReq, svcCalls, svcResult, svcObs>>
    /\ UNCHANGED rlVars

\* ai.models.generateContent rejects: callGeminiAPI rethrows (part_000:199-202)
\* and the catch block of generateDesign converts the failure.
ServiceCallRejects(failure) ==
    /\ UNCHANGED <<genVars, stVars, idVars, drVars>>
    /\ svcPc = "calling"
    /\ svcPc' = "done"
    /\ svcResult' = Rejected(ServiceCatch(failure))
    /\ svcObs' = [svcObs EXCEPT !.failure = failure]
    /\ UNCHANGED <<ai, svcReq, svcCalls>>
    /\ UNCHANGED rlVars

\* getImageDimensions settles (imageUtils.ts:170-179): the design is built, or
\* the image fails to load.
ServiceDecodeSettles(loaded) ==
    /\ UNCHANGED <<genVars, stVars, idVars, drVars>>
    /\ svcPc = "decoding"
    /\ svcPc' = "done"
    /\ svcResult' = IF loaded THEN Resolved(Design(svcReq))
                    ELSE Rejected(ServiceCatch(JsError("Error", "Failed to load image")))
    /\ UNCHANGED <<ai, svcReq, svcCalls, svcObs>>
    /\ UNCHANGED rlVars

\* The caller is ready to make its next call.
ServiceNextCall ==
    /\ UNCHANGED <<genVars, stVars, idVars, drVars>>
    /\ svcPc = "done"
    /\ svcPc' = "idle"
    /\ svcReq' = NoRequest
    /\ svcCalls' = 0
    /\ svcResult' = Unsettled
    /\ svcObs' = NoObs
    /\ UNCHANGED ai
    /\ UNCHANGED rlVars

\* Date.now() moves on while the service is in use.
ServiceAdvance ==
    /\ now < MaxServiceTicks * (ServiceWindowMs \div TicksPerWindow)
    /\ now' = now + (ServiceWindowMs \div TicksPerWindow)
    /\ UNCHANGED <<requests, config, rlLast, admitLog, lastReject>>
    /\ UNCHANGED <<svcVars, genVars, stVars, idVars, drVars>>

\* new GeminiImageService(apiKey) (part_000:28-37)
InitService ==
    /\ requests = << >>
    /\ config = [maxRequests |-> ServiceMaxRequests, windowMs |-> ServiceWindowMs]
    /\ now = 0
    /\ rlLast = NoCall
    /\ admitLog = << >>
    /\ lastReject = NoReject
    /\ ai \in BOOLEAN
    /\ svcPc = "idle"
    /\ svcReq = NoRequest
    /\ svcCalls = 0
    /\ svcResult = Unsettled
    /\ svcObs = NoObs
    /\ InitGenerateIdle
    /\ InitStorageIdle
    /\ InitIdsIdle
    /\ InitHookIdle

NextService ==
    \/ \E req \in GenerateRequests : GenerateDesign(req)
    \/ ServiceCallResolves
    \/ \E failure \in ExternalFailures : ServiceCallRejects(failure)
    \/ \E loaded \in BOOLEAN : ServiceDecodeSettles(loaded)
    \/ ServiceNextCall
    \/ ServiceAdvance
    \/ (svcPc = "idle" /\ GetRemainingRequests)
    \/ (svcPc = "idle" /\ GetTimeUntilReset)
    \/ (svcPc = "idle" /\ Reset)

SpecService == InitService /\ [][NextService]_vars

---------------------------------------------------------------------------
(* Claims about GeminiImageService.generateDesign, checked under SpecService. *)

\* The failure generateDesign rejected with.
ServiceRejectedWith(type, retryable) ==
    /\ svcResult.status = "rejected"
    /\ svcResult.error.type = type
    /\ svcResult.error.retryable = retryable

\* C3: a generateDesign call made with the rate limiter at capacity rejects
\* with RATE_LIMIT_EXCEEDED, retryable = false, carrying the wait time, and
\* ai.models.generateContent is not invoked for it.
C3_RateLimitedRejects ==
    (svcPc # "idle" /\ svcObs.atCapacity) =>
        /\ svcPc = "done"
        /\ ServiceRejectedWith("RATE_LIMIT_EXCEEDED", FALSE)
        /\ svcResult.error.details.kind = "waitTime"
        /\ svcResult.error.details.waitTime > 0
        /\ svcCalls = 0

\* C3 witness: a call rejected at capacity, the window having been filled by
\* three admitted calls.
C3_Witness ==
    /\ svcPc = "done"
    /\ svcObs.atCapacity
    /\ Len(admitLog) = ServiceMaxRequests
    /\ ServiceRejectedWith("RATE_LIMIT_EXCEEDED", FALSE)

\* C4 (as claimed): with the service configured, a request whose prompt is
\* the empty string is rejected with INVALID_PROMPT, retryable = false, and
\* remaining() is the same after the rejection as before the call.
C4_EmptyPromptConsumesNothing ==
    (ai /\ svcPc # "idle" /\ PromptLength(svcReq.prompt) = 0) =>
        /\ svcPc = "done"
        /\ ServiceRejectedWith("INVALID_PROMPT", FALSE)
        /\ svcObs.remAfter = svcObs.remBefore

PromptViolation(req) ==
    TrimLength(req.prompt) = 0 \/ PromptLength(req.prompt) > MaxPromptLength

ImageViolation(req) ==
    \/ ImageFalsy(req.referenceImage)
    \/ ~StartsWithDataImage(req.referenceImage)
    \/ Base64ImageLength(req.referenceImage) * 3 > 4 * MaxImageBytes

\* C5 (as claimed): with the service configured, a request that violates
\* validation is rejected with INVALID_PROMPT or SCREENSHOT_FAILED,
\* retryable = false, without an admission by the rate limiter and without
\* an external call.
C5_ValidationFailsFast ==
    (ai /\ svcPc # "idle" /\ (PromptViolation(svcReq) \/ ImageViolation(svcReq))) =>
        /\ svcPc = "done"
        /\ \/ PromptViolation(svcReq) /\ ServiceRejectedWith("INVALID_PROMPT", FALSE)
           \/ ImageViolation(svcReq) /\ ServiceRejectedWith("SCREENSHOT_FAILED", FALSE)
        /\ svcObs.remAfter = svcObs.remBefore
        /\ svcCalls = 0

\* C9 (as claimed): a raw failure of the external call whose message
\* contains both "quota" and "network" is reported as QUOTA_EXCEEDED with
\* retryable = true.
C9_QuotaBeforeNetwork ==
    (svcPc = "done" /\ IsError(svcObs.failure)
       /\ Includes(svcObs.failure.message, "quota")
       /\ Includes(svcObs.failure.message, "network")) =>
        ServiceRejectedWith("QUOTA_EXCEEDED", TRUE)

---------------------------------------------------------------------------
(* generateCreativeDesign (part_001): validation, retry, timeout, errors *)

OriginalError(error, context) ==
    [kind |-> "originalError", originalError |-> error.message, context |-> context]

\* A variant of handleGenericError that leaves the failure as it was thrown.
HandleGenericErrorRaw(error, context) == error

\* handleGenericError (part_001:401-485); the messages are rendered in English.
HandleGenericError(error, context) ==
    IF HasType(error) THEN error
    ELSE IF IsError(error) THEN
        IF \/ Includes(error.message, "fetch")
           \/ Includes(error.message, "network")
           \/ Includes(error.message, "NetworkError")
           \/ error.name = "NetworkError"
        THEN DesignError("NETWORK_ERROR", "network connection failed, check it and retry",
                         TRUE, OriginalError(error, context))
        ELSE IF \/ Includes(error.message, "timeout")
                \/ Includes(error.message, "AbortError")
                \/ error.name = "AbortError"
        THEN DesignError("API_ERROR", "request timed out, retry later",
                         TRUE, OriginalError(error, context))
        ELSE IF \/ Includes(error.message, "quota")
                \/ Includes(error.message, "rate limit")
                \/ Includes(error.message, "429")
        THEN DesignError("RATE_LIMIT_EXCEEDED", "API called too often, retry later",
                         TRUE, OriginalError(error, context))
        ELSE IF \/ Includes(error.message, "401")
                \/ Includes(error.message, "unauthorized")
                \/ Includes(error.message, "authentication")
        THEN DesignError("API_ERROR", "API authentication failed, check the configuration",
                         FALSE, OriginalError(error, context))
        ELSE IF \/ Includes(error.message, "500")
                \/ Includes(error.message, "502")
                \/ Includes(error.message, "503")
                \/ Includes(error.message, "504")
        THEN DesignError("API_ERROR", "server temporarily unavailable, retry later",
                         TRUE, OriginalError(error, context))
        ELSE DesignError("API_ERROR", "error while generating the design: " \o error.message,
                         TRUE, OriginalError(error, context))
    ELSE DesignError("API_ERROR", "unknown error, retry", TRUE,
                     [kind |-> "originalError", originalError |-> error.thrown,
                      context |-> context])

\* The catch block of callGeminiImageAPI (part_001:307-351): what the call
\* rejects with when its body threw "error".
CallGeminiCatch(error) ==
    IF ~IsError(error) THEN error
    ELSE IF Includes(error.message, "quota")
    THEN DesignError("RATE_LIMIT_EXCEEDED", "API quota used up, retry later or check the quota",
                     TRUE, [kind |-> "originalError", originalError |-> error.message])
    ELSE IF Includes(error.message, "permission") \/ Includes(error.message, "unauthorized")
    THEN DesignError("API_ERROR", "API permission denied, check the API key",
                     FALSE, [kind |-> "originalError", originalError |-> error.message])
    ELSE IF Includes(error.message, "model not found") \/ Includes(error.message, "invalid model")
    THEN DesignError("API_ERROR", "AI model unavailable, contact support",
                     FALSE, [kind |-> "originalError", originalError |-> error.message])
    ELSE IF Includes(error.message, "content policy") \/ Includes(error.message, "safety")
    THEN DesignError("API_ERROR", "content violates the safety policy, change the prompt",
                     FALSE, [kind |-> "originalError", originalError |-> error.message])
    ELSE error

\* What createTimeoutPromise(ms) rejects with (part_001:490-496).
TimeoutFailure(ms) == JsError("Error", "Operation timed out after " \o ToString(ms) \o "ms")

ShouldAbortNever(error) == FALSE

\* retryWithBackoff: "don't retry on non-retryable errors" (part_001:515)
ShouldAbort(error) == HasType(error) /\ ~error.retryable

\* A variant of the test for the last attempt that allows one attempt more.
LastAttemptLate(k, maxAttempts) == k = maxAttempts + 1

\* retryWithBackoff: "don't retry on the last attempt" (part_001:520)
LastAttempt(k, maxAttempts) == k = maxAttempts

BackoffDelayDoubled(baseDelay, k) == baseDelay * 2 ^ k

\* retryWithBackoff: baseDelay * Math.pow(2, attempt - 1) (part_001:525)
BackoffDelay(baseDelay, k) == baseDelay * 2 ^ (k - 1)

\* The validation of generateCreativeDesign (part_001:92-152): the DesignError
\* thrown for the request, or "none".
ValidationError(req) ==
    IF ~genAi
    THEN DesignError("API_ERROR", "AI service offline, configure the API key", FALSE, NoDetails)
    ELSE IF PromptLength(req.prompt) = 0 \/ TrimLength(req.prompt) = 0
    THEN DesignError("INVALID_PROMPT", "prompt must not be empty", FALSE, NoDetails)
    ELSE IF TrimLength(req.prompt) > MaxPromptLength
    THEN DesignError("INVALID_PROMPT", "prompt too long, keep it within 500 characters",
                     FALSE, NoDetails)
    ELSE IF ImageFalsy(req.referenceImage)
    THEN DesignError("SCREENSHOT_FAILED", "reference image missing, capture the model first",
                     FALSE, NoDetails)
    ELSE IF ~StartsWithDataImage(req.referenceImage)
    THEN DesignError("SCREENSHOT_FAILED", "image format not recognised, capture again",
                     FALSE, NoDetails)
    ELSE IF Base64ImageLength(req.referenceImage) * 3 > 4 * MaxImageBytes
    THEN DesignError("SCREENSHOT_FAILED", "image too large, lower the capture quality",
                     FALSE, NoDetails)
    ELSE [kind |-> "none"]

\* operation() is invoked: callGeminiImageAPI checks its parameters
\* (part_001:245-251) and, with a reference image, calls the external API.
InvokeOperation(req) ==
    /\ opCalls' = opCalls + 1
    /\ IF Base64ImageLength(req.referenceImage) = 0
       THEN call' = "refused" /\ UNCHANGED apiCalls
       ELSE call' = "pending" /\ apiCalls' = apiCalls + 1

\* generateCreativeDesign up to its first suspension (part_001:89-165).
GenerateCreativeDesign(req) ==
    /\ genPc = "idle"
    /\ genReq' = req
    /\ IF ValidationError(req) # [kind |-> "none"]
       THEN /\ genPc' = "done"
            /\ genResult' = Rejected(HandleGenericError(ValidationError(req),
                                                        "generateCreativeDesign"))
            /\ UNCHANGED <<attempt, call, opCalls, apiCalls>>
       ELSE /\ genPc' = "attempt"
            /\ attempt' = 1
            /\ InvokeOperation(req)
            /\ UNCHANGED genResult
    /\ UNCHANGED <<genAi, retryCfg, orphans, delays, attemptErrors, runOutcome>>
    /\ UNCHANGED <<rlVars, svcVars, stVars, idVars, drVars>>

\* The catch block of retryWithBackoff's loop (part_001:511-535) and, when
\* the loop is left, "throw lastError" and the catch block of
\* generateCreativeDesign (part_001:200-204).
AttemptFailed(error) ==
    /\ attemptErrors' = Append(attemptErrors, error)
    /\ call' = "none"
    /\ IF ShouldAbort(error) \/ LastAttempt(attempt, retryCfg.maxAttempts)
       THEN /\ runOutcome' = Rejected(error)
            /\ genResult' = Rejected(HandleGenericError(error, "generateCreativeDesign"))
            /\ genPc' = "done"
            /\ UNCHANGED delays
       ELSE /\ delays' = Append(delays, BackoffDelay(retryCfg.baseDelay, attempt))
            /\ genPc' = "backoff"
            /\ UNCHANGED <<runOutcome, genResult>>
    /\ UNCHANGED <<genAi, genReq, retryCfg, attempt, opCalls, apiCalls>>
    /\ UNCHANGED <<requests, config, rlLast, admitLog, lastReject, svcVars, stVars, idVars, drVars>>

\* callGeminiImageAPI found no reference image to send and threw.
CallRefused ==
    /\ genPc = "attempt" /\ call = "refused"
    /\ AttemptFailed(CallGeminiCatch(
           JsError("Error", "Reference image is required for image generation")))
    /\ UNCHANGED <<now, orphans>>

\* ai.models.generateContent resolves before the timeout: with a response
\* (the design is assembled, part_001:167-198) or with none (part_001:286-288).
CallResolves(hasResponse) ==
    /\ genPc = "attempt" /\ call = "pending"
    /\ IF hasResponse
       THEN /\ runOutcome' = Resolved([imageUrl |-> genReq.referenceImage])
            /\ genResult' = Resolved(Design(genReq))
            /\ genPc' = "done"
            /\ call' = "none"
            /\ UNCHANGED <<genAi, genReq, retryCfg, attempt, opCalls, apiCalls, delays,
                           attemptErrors>>
            /\ UNCHANGED <<requests, config, rlLast, admitLog, lastReject, svcVars, stVars, idVars, drVars>>
       ELSE AttemptFailed(CallGeminiCatch(JsError("Error", "Empty response from Gemini API")))
    /\ UNCHANGED <<now, orphans>>

\* ai.models.generateContent rejects before the timeout.
CallRejects(failure) ==
    /\ genPc = "attempt" /\ call = "pending"
    /\ AttemptFailed(CallGeminiCatch(failure))
    /\ UNCHANGED <<now, orphans>>

\* The timeout of the attempt fires first: Promise.race rejects with the
\* timeout failure and the external call goes on unobserved.
CallTimesOut ==
    /\ genPc = "attempt" /\ call = "pending"
    /\ now' = now + API_TIMEOUT_MS
    /\ orphans' = orphans + 1
    /\ AttemptFailed(TimeoutFailure(API_TIMEOUT_MS))

\* The backoff timer fires (part_001:534): the loop makes its next attempt.
BackoffEnds ==
    /\ genPc = "backoff"
    /\ now' = now + delays[Len(delays)]
    /\ attempt' = attempt + 1
    /\ genPc' = "attempt"
    /\ InvokeOperation(genReq)
    /\ UNCHANGED <<genAi, genReq, retryCfg, orphans, delays, attemptErrors, runOutcome,
                   genResult>>
    /\ UNCHANGED <<requests, config, rlLast, admitLog, lastReject, svcVars, stVars, idVars, drVars>>

\* A variant in which the completion of a call that lost its race is taken
\* as the outcome of the run.
OrphanAdopted ==
    /\ orphans > 0
    /\ orphans' = orphans - 1
    /\ genPc # "done"
    /\ genPc' = "done"
    /\ call' = "none"
    /\ runOutcome' = Resolved([imageUrl |-> genReq.referenceImage])
    /\ genResult' = Resolved(Design(genReq))
    /\ UNCHANGED <<genAi, genReq, retryCfg, attempt, opCalls, apiCalls, delays, attemptErrors>>
    /\ UNCHANGED <<rlVars, svcVars, stVars, idVars, drVars>>

\* An external call that lost its race settles: nothing awaits its result.
OrphanSettles ==
    /\ orphans > 0
    /\ orphans' = orphans - 1
    /\ UNCHANGED <<genAi, genPc, genReq, retryCfg, attempt, call, opCalls, apiCalls,
                   delays, attemptErrors, runOutcome, genResult>>
    /\ UNCHANGED <<rlVars, svcVars, stVars, idVars, drVars>>

\* The module of generateCreativeDesign is loaded, with or without API key.
InitGenerate ==
    /\ requests = << >>
    /\ config = [maxRequests |-> ServiceMaxRequests, windowMs |-> ServiceWindowMs]
    /\ now = 0
    /\ rlLast = NoCall
    /\ admitLog = << >>
    /\ lastReject = NoReject
    /\ InitServiceIdle
    /\ genAi \in BOOLEAN
    /\ genPc = "idle"
    /\ genReq = NoRequest
    /\ retryCfg = [maxAttempts |-> MAX_RETRY_ATTEMPTS, baseDelay |-> RETRY_DELAY_MS]
    /\ attempt = 0
    /\ call = "none"
    /\ orphans = 0
    /\ opCalls = 0
    /\ apiCalls = 0
    /\ delays = << >>
    /\ attemptErrors = << >>
    /\ runOutcome = Unsettled
    /\ genResult = Unsettled
    /\ InitStorageIdle
    /\ InitIdsIdle
    /\ InitHookIdle

NextGenerate ==
    \/ \E req \in GenerateRequests : GenerateCreativeDesign(req)
    \/ CallRefused
    \/ \E hasResponse \in BOOLEAN : CallResolves(hasResponse)
    \/ \E failure \in ExternalFailures : CallRejects(failure)
    \/ CallTimesOut
    \/ BackoffEnds
    \/ OrphanSettles

SpecGenerate == InitGenerate /\ [][NextGenerate]_vars

---------------------------------------------------------------------------
(* Claims about retryWithBackoff and generateCreativeDesign, checked under *)
(* SpecGenerate.                                                           *)

\* C6: when the operation fails with a DesignError having retryable = false,
\* it has been invoked exactly once, no backoff delay is set, and
\* retryWithBackoff (and with it generateCreativeDesign) rejects with that
\* same error value, unchanged.
C6_NonRetryableOnce ==
    (Len(attemptErrors) >= 1 /\ HasType(attemptErrors[1]) /\ ~attemptErrors[1].retryable) =>
        /\ genPc = "done"
        /\ opCalls = 1
        /\ Len(attemptErrors) = 1
        /\ delays = << >>
        /\ runOutcome = Rejected(attemptErrors[1])
        /\ genResult = Rejected(attemptErrors[1])

\* C6 witness: the external call was refused for lack of permission.
C6_Witness ==
    /\ genPc = "done"
    /\ Len(attemptErrors) = 1
    /\ HasType(attemptErrors[1])
    /\ ~attemptErrors[1].retryable
    /\ apiCalls = 1

\* C7: the k-th backoff delay is baseDelay * 2^(k-1); one delay is set after
\* each failed attempt but the last and none after a success; an operation
\* that fails twice and then succeeds with maxAttempts = 3 was invoked 3
\* times, returns the success and waited baseDelay, then 2 * baseDelay.
C7_BackoffSchedule ==
    /\ \A k \in DOMAIN delays : delays[k] = retryCfg.baseDelay * 2 ^ (k - 1)
    /\ genPc = "attempt" => (Len(delays) = opCalls - 1 /\ Len(attemptErrors) = opCalls - 1)
    /\ genPc = "backoff" => (Len(delays) = opCalls /\ opCalls < retryCfg.maxAttempts)
    /\ (genPc = "done" /\ runOutcome.status = "resolved") =>
          (Len(delays) = opCalls - 1 /\ Len(attemptErrors) = opCalls - 1)
    /\ (genPc = "done" /\ runOutcome.status = "resolved" /\ Len(attemptErrors) = 2
          /\ retryCfg.maxAttempts = 3) =>
          /\ opCalls = 3
          /\ genResult.status = "resolved"
          /\ delays = <<retryCfg.baseDelay, 2 * retryCfg.baseDelay>>

\* C7 witness: two retryable failures, then a success on the third attempt.
C7_Witness ==
    /\ genPc = "done"
    /\ runOutcome.status = "resolved"
    /\ Len(attemptErrors) = 2
    /\ opCalls = 3
    /\ Len(delays) = 2

\* What the error classification (the catch block of callGeminiImageAPI, then
\* handleGenericError) makes of the failure of an attempt.
Classified(error) == HandleGenericError(error, "generateCreativeDesign")

\* C8 (as claimed): a failure of the external call that is classified as
\* retryable = false is not followed by another attempt: the external call is
\* invoked exactly once and generate rejects with the non-retryable error.
C8_ClassifiedBeforeRetry ==
    (Len(attemptErrors) >= 1 /\ ~Classified(attemptErrors[1]).retryable) =>
        /\ genPc = "done"
        /\ apiCalls = 1
        /\ genResult.status = "rejected"
        /\ ~genResult.error.retryable

\* C10 (as claimed): when every attempt times out, generate rejects after
\* exactly maxAttempts attempts with TIMEOUT_ERROR, retryable = true.
C10_TimeoutSurfaced ==
    (genPc = "done" /\ opCalls >= 1 /\ Len(attemptErrors) = opCalls
       /\ \A k \in DOMAIN attemptErrors : attemptErrors[k] = TimeoutFailure(API_TIMEOUT_MS)) =>
        /\ opCalls = retryCfg.maxAttempts
        /\ genResult.status = "rejected"
        /\ genResult.error.type = "TIMEOUT_ERROR"
        /\ genResult.error.retryable

\* The kinds of DesignErrorType (types/creativeDesign.ts:69-80).
DesignErrorTypes ==
    {"SCREENSHOT_FAILED", "API_ERROR", "RATE_LIMIT_EXCEEDED", "INVALID_PROMPT",
     "STORAGE_ERROR", "NETWORK_ERROR", "TIMEOUT_ERROR", "AUTHENTICATION_ERROR",
     "CONTENT_POLICY_ERROR", "QUOTA_EXCEEDED"}

\* The keywords of the specific rules of handleGenericError (part_001:406-465),
\* of the catch block of callGeminiImageAPI (part_001:311-347) and of the
\* catch block of generateDesign (part_000:131-138).
RuleKeywords ==
    {"fetch", "network", "NetworkError", "timeout", "AbortError", "quota",
     "rate limit", "429", "401", "unauthorized", "authentication", "500", "502",
     "503", "504", "permission", "model not found", "invalid model",
     "content policy", "safety"}

\* A raw failure that some specific rule matches.
MatchesSpecificRule(error) ==
    /\ IsError(error)
    /\ \/ \E k \in RuleKeywords : Includes(error.message, k)
       \/ error.name \in {"NetworkError", "AbortError"}

---------------------------------------------------------------------------
(* DesignStorageService (designStorageService.ts): an IndexedDB object     *)
(* store "designs" with key path "id" and the indexes "timestamp" and      *)
(* "artifactId".                                                           *)

MaxStoreNow == 1    \* designs are created at the milliseconds 0..MaxStoreNow
MaxStored   == 2    \* the object store holds at most this many records

Artifacts == {"art-1", "art-2"}

\* The random parts of the ids: two values, ordered as their strings are.
RandomParts == {1, 2}

\* The designs a caller can hand to saveDesign or updateDesign at "time".
DesignsUpTo(time) ==
    {GeneratedDesign(GenerateDesignId(ms, rand), a) :
        ms \in 0..time, rand \in RandomParts, a \in Artifacts}

StoreKeys == {GenerateDesignId(ms, rand) : ms \in 0..MaxStoreNow, rand \in RandomParts}

\* The records of a set in the order of their keys: what IDBObjectStore.getAll
\* and IDBIndex.getAll(key) return.
RECURSIVE SortByKey(_)
SortByKey(records) ==
    IF records = {} THEN << >>
    ELSE LET first == CHOOSE r \in records :
                          \A o \in records \ {r} : KeyLess(r.id, o.id)
         IN  <<first>> \o SortByKey(records \ {first})

HasKey(records, id) == \E r \in records : r.id = id

\* A variant of IDBObjectStore.get that finds nothing.
StoreGetNothing(records, id) == Null

\* IDBObjectStore.get(id), then "request.result || null".
StoreGet(records, id) ==
    IF HasKey(records, id) THEN CHOOSE r \in records : r.id = id ELSE Null

\* Removing a key from a sequence of keys.
RECURSIVE WithoutKey(_, _)
WithoutKey(keys, id) ==
    IF keys = << >> THEN << >>
    ELSE IF Head(keys) = id THEN WithoutKey(Tail(keys), id)
    ELSE <<Head(keys)>> \o WithoutKey(Tail(keys), id)

\* saveDesign (designStorageService.ts:61-72): store.add(design).
SaveDesignStep(design) ==
    /\ HasKey(store, design.id) \/ Cardinality(store) < MaxStored
    /\ db' = TRUE
    /\ IF HasKey(store, design.id)
       THEN /\ stLast' = StorageCall("saveDesign", design, FALSE,
                                     DomException("ConstraintError"), Null)
            /\ UNCHANGED <<store, insertLog, lastSaved>>
       ELSE /\ store' = store \cup {design}
            /\ insertLog' = Append(insertLog, design.id)
            /\ lastSaved' = design
            /\ stLast' = StorageCall("saveDesign", design, TRUE, Null, Null)
    /\ UNCHANGED <<rlVars, svcVars, genVars, drVars>>

SaveDesign(design) == SaveDesignStep(design) /\ UNCHANGED idVars

\* getAllDesigns (designStorageService.ts:77-88): store.getAll().
GetAllDesigns ==
    /\ db' = TRUE
    /\ stLast' = StorageCall("getAllDesigns", Null, TRUE, Null,
                             [items |-> SortByKey(store)])
    /\ UNCHANGED <<store, insertLog, lastSaved, rlVars, svcVars, genVars, drVars, idVars>>

\* getDesign (designStorageService.ts:93-104): store.get(id).
GetDesign(id) ==
    /\ db' = TRUE
    /\ stLast' = StorageCall("getDesign", [id |-> id], TRUE, Null, StoreGet(store, id))
    /\ UNCHANGED <<store, insertLog, lastSaved, rlVars, svcVars, genVars, drVars, idVars>>

\* getDesignsByArtifact (designStorageService.ts:109-121):
\* store.index('artifactId').getAll(artifactId).
GetDesignsByArtifact(artifactId) ==
    /\ db' = TRUE
    /\ stLast' = StorageCall("getDesignsByArtifact", [artifactId |-> artifactId], TRUE, Null,
                             [items |-> SortByKey({r \in store : r.artifactId = artifactId})])
    /\ UNCHANGED <<store, insertLog, lastSaved, rlVars, svcVars, genVars, drVars, idVars>>

\* deleteDesign (designStorageService.ts:126-137): store.delete(id).
DeleteDesign(id) ==
    /\ db' = TRUE
    /\ store' = {r \in store : r.id # id}
    /\ insertLog' = WithoutKey(insertLog, id)
    /\ lastSaved' = IF lastSaved # Null /\ lastSaved.id = id THEN Null ELSE lastSaved
    /\ stLast' = StorageCall("deleteDesign", [id |-> id], TRUE, Null, Null)
    /\ UNCHANGED <<rlVars, svcVars, genVars, drVars, idVars>>

\* updateDesign (designStorageService.ts:142-153): store.put(design).
UpdateDesign(design) ==
    /\ HasKey(store, design.id) \/ Cardinality(store) < MaxStored
    /\ db' = TRUE
    /\ store' = {r \in store : r.id # design.id} \cup {design}
    /\ insertLog' = IF HasKey(store, design.id) THEN insertLog
                    ELSE Append(insertLog, design.id)
    /\ lastSaved' = IF lastSaved # Null /\ lastSaved.id = design.id THEN Null ELSE lastSaved
    /\ stLast' = StorageCall("updateDesign", design, TRUE, Null, Null)
    /\ UNCHANGED <<rlVars, svcVars, genVars, drVars, idVars>>

\* clearAll (designStorageService.ts:158-169): store.clear().
ClearAll ==
    /\ db' = TRUE
    /\ store' = {}
    /\ insertLog' = << >>
    /\ lastSaved' = Null
    /\ stLast' = StorageCall("clearAll", Null, TRUE, Null, Null)
    /\ UNCHANGED <<rlVars, svcVars, genVars, drVars, idVars>>

\* getCount (designStorageService.ts:174-185): store.count().
GetCount ==
    /\ db' = TRUE
    /\ stLast' = StorageCall("getCount", Null, TRUE, Null, [count |-> Cardinality(store)])
    /\ UNCHANGED <<store, insertLog, lastSaved, rlVars, svcVars, genVars, drVars, idVars>>

\* close (designStorageService.ts:190-195).
Close ==
    /\ db
    /\ db' = FALSE
    /\ stLast' = StorageCall("close", Null, TRUE, Null, Null)
    /\ UNCHANGED <<store, insertLog, lastSaved, rlVars, svcVars, genVars, drVars, idVars>>

\* A millisecond passes.
StorageTick ==
    /\ now < MaxStoreNow
    /\ now' = now + 1
    /\ UNCHANGED <<requests, config, rlLast, admitLog, lastReject>>
    /\ UNCHANGED <<svcVars, genVars, stVars, idVars, drVars>>

\* new DesignStorageService() on an empty database.
InitStorage ==
    /\ requests = << >>
    /\ config = [maxRequests |-> ServiceMaxRequests, windowMs |-> ServiceWindowMs]
    /\ now = 0
    /\ rlLast = NoCall
    /\ admitLog = << >>
    /\ lastReject = NoReject
    /\ InitServiceIdle
    /\ InitGenerateIdle
    /\ InitStorageIdle
    /\ InitIdsIdle
    /\ InitHookIdle

NextStorage ==
    \/ \E design \in DesignsUpTo(now) : SaveDesign(design)
    \/ GetAllDesigns
    \/ \E id \in StoreKeys : GetDesign(id)
    \/ \E artifactId \in Artifacts : GetDesignsByArtifact(artifactId)
    \/ \E id \in StoreKeys : DeleteDesign(id)
    \/ \E design \in DesignsUpTo(now) : UpdateDesign(design)
    \/ ClearAll
    \/ GetCount
    \/ Close
    \/ StorageTick

SpecStorage == InitStorage /\ [][NextStorage]_vars

---------------------------------------------------------------------------
(* Claims about the DesignStorageService, checked under SpecStorage. *)

\* C12 (as claimed): a saveDesign of a design whose id is already stored
\* fails with a DesignError of type STORAGE_ERROR and leaves the stored
\* records, and so their count, unchanged.
C12_DuplicateSaveFails ==
    [][ \A design \in DesignsUpTo(now) :
          (SaveDesign(design) /\ HasKey(store, design.id)) =>
              /\ ~stLast'.ok
              /\ store' = store
              /\ HasType(stLast'.error)
              /\ stLast'.error.type = "STORAGE_ERROR" ]_vars

\* C13: getDesign(d.id) after a successful saveDesign(d) returns a value equal
\* to d, and getDesign(id) returns null for an id that was never stored, or
\* was deleted or cleared since.
C13_RoundTrip ==
    stLast.op = "getDesign" =>
        /\ (lastSaved # Null /\ lastSaved.id = stLast.arg.id) => stLast.value = lastSaved
        /\ (\A k \in DOMAIN insertLog : insertLog[k] # stLast.arg.id) => stLast.value = Null

\* C13 witness: a second design was saved next to a stored one and read back.
C13_Witness ==
    /\ stLast.op = "getDesign"
    /\ lastSaved # Null
    /\ lastSaved.id = stLast.arg.id
    /\ stLast.value = lastSaved
    /\ Cardinality(store) = 2

\* The position of a stored key in the order of insertion.
InsertedAt(id) == CHOOSE k \in DOMAIN insertLog : insertLog[k] = id

\* Design a was created before design b: at an earlier millisecond, or at
\* the same millisecond and stored first.
CreatedBefore(a, b) ==
    \/ a.timestamp < b.timestamp
    \/ a.timestamp = b.timestamp /\ InsertedAt(a.id) < InsertedAt(b.id)

\* C14 (as claimed): getDesignsByArtifact(artifactId) returns exactly the
\* stored designs of that artifact, each once, in the order in which they
\* were created.
C14_ByOwnerInCreationOrder ==
    stLast.op = "getDesignsByArtifact" =>
        LET items == stLast.value.items
            owned == {r \in store : r.artifactId = stLast.arg.artifactId}
        IN  /\ {items[i] : i \in DOMAIN items} = owned
            /\ Len(items) = Cardinality(owned)
            /\ \A i, j \in DOMAIN items : i < j => ~CreatedBefore(items[j], items[i])

\* C15 (as claimed): getAllDesigns returns every stored design, each once,
\* and a design saved before another precedes it, whatever their ids.
C15_AllInInsertionOrder ==
    stLast.op = "getAllDesigns" =>
        LET items == stLast.value.items
        IN  /\ {items[i] : i \in DOMAIN items} = store
            /\ Len(items) = Cardinality(store)
            /\ \A i, j \in DOMAIN items :
                  i < j => InsertedAt(items[i].id) < InsertedAt(items[j].id)

---------------------------------------------------------------------------
(* useCreativeDesignState (hooks/useCreativeDesignState.ts): the panel     *)
(* state and its draft in localStorage.  A render and the effects it       *)
(* schedules are one step.                                                 *)

\* PERSISTENCE_CONFIG.expirationHours in ms (useCreativeDesignState.ts:229).
ExpirationMs == 24 * 60 * 60 * 1000

\* PERSISTENCE_CONFIG.maxStorageSize (part_003:39).
MaxStorageSize == 5 * 1024 * 1024

MaxDraftTicks == 3    \* the clock advances by half of ExpirationMs, this many times

\* A screenshot (a data URL) by the length of its text.  The code never looks
\* at the length; it only decides whether localStorage takes the item.
LargeShot == [name |-> "shot-large", length |-> 6 * 1024 * 1024]

Screenshots == {Null, LargeShot}

Prompts == {"", "modern poster"}

Styles == {DefaultStyle, "vintage"}

AspectRatios == {"1:1", "16:9"}

GeneratedResults == {Null, [id |-> "design-0-1"]}

PanelErrors == {Null, DesignError("API_ERROR", "generation failed", TRUE, NoDetails)}

DraftFields == {"screenshot", "prompt", "style", "aspectRatio"}

\* The object the persist effect hands to persistState
\* (useCreativeDesignState.ts:86-93).
PersistedDesignState(state, artifactId, time) ==
    [screenshot |-> state.screenshot, prompt |-> state.prompt, style |-> state.style,
     aspectRatio |-> state.aspectRatio, artifactId |-> artifactId, timestamp |-> time]

\* The length of JSON.stringify(persisted): the text of the fields and the
\* punctuation around them.
SerializedLength(persisted) ==
    (IF persisted.screenshot = Null THEN 4 ELSE persisted.screenshot.length + 2)
    + Len(persisted.prompt) + Len(persisted.style) + Len(persisted.aspectRatio)
    + Len(persisted.artifactId) + Len(ToString(persisted.timestamp)) + 80

\* JSON.stringify, then JSON.parse, of a PersistedDesignState: null, strings
\* and a number come back as they were; a field that is not one of the six
\* would come back too.
JsonRoundTrip(persisted) == [f \in DOMAIN persisted |-> persisted[f]]

\* persistState (useCreativeDesignState.ts:206-213): what localStorage holds
\* afterwards, and whether setItem took the item.  setItem throws when the
\* quota of the browser is exceeded ("fits" is FALSE); the catch only warns.
PersistState(old, persisted, fits) ==
    IF fits THEN [item |-> JsonRoundTrip(persisted), outcome |-> "stored"]
    ELSE [item |-> old, outcome |-> "swallowed"]

\* Whether localStorage has room: items up to maxStorageSize fit in every
\* browser, for larger ones the browser decides.
MayFit(persisted) == {TRUE} \cup (IF SerializedLength(persisted) > MaxStorageSize
                                  THEN {FALSE} ELSE {})

IsExpired(persisted, time) == time - persisted.timestamp > ExpirationMs

\* A restore that took place without restoring or removing anything.
NoRestore == [result |-> Null, item |-> Null, purged |-> "none"]

\* A variant of restorePersistedState that does not compare the artifact.
RestoreAnyArtifact(item, currentArtifactId, time) ==
    IF item = Null THEN NoRestore
    ELSE IF ~IsExpired(item, time)
    THEN [result |-> [screenshot |-> item.screenshot, prompt |-> item.prompt,
                      style |-> item.style, aspectRatio |-> item.aspectRatio],
          item |-> item, purged |-> "none"]
    ELSE [result |-> Null, item |-> Null, purged |-> "expired"]

\* restorePersistedState (useCreativeDesignState.ts:218-249): the result,
\* what localStorage holds afterwards, and why an item was removed.
RestorePersistedState(item, currentArtifactId, time) ==
    IF item = Null THEN NoRestore
    ELSE IF ~IsExpired(item, time) /\ item.artifactId = currentArtifactId
    THEN [result |-> [screenshot |-> item.screenshot, prompt |-> item.prompt,
                      style |-> item.style, aspectRatio |-> item.aspectRatio],
          item |-> item, purged |-> "none"]
    ELSE [result |-> Null, item |-> Null,
          purged |-> IF item.artifactId # currentArtifactId THEN "mismatch" ELSE "expired"]

\* { ...prev, ...updates }
Merge(prev, updates) ==
    [f \in DOMAIN prev |-> IF f \in DOMAIN updates THEN updates[f] ELSE prev[f]]

\* A variant of the dependency list that also holds the result fields.
EffectDepsChangedAny(prev, next, prevProps, nextProps) ==
    prev # next \/ prevProps # nextProps

\* The dependency list of the persist effect (useCreativeDesignState.ts:94-102)
\* differs between two renders.
EffectDepsChanged(prev, next, prevProps, nextProps) ==
    \/ \E f \in DraftFields : prev[f] # next[f]
    \/ prevProps # nextProps

\* A render with "next" and the options "props", followed by the persist
\* effect (useCreativeDesignState.ts:83-102) when it is due; "item" is what
\* localStorage holds when the render starts.
RenderAndPersist(item, next, props, due, restored) ==
    /\ hookState' = next
    /\ hookProps' = props
    /\ IF due /\ props.enablePersistence /\ ~next.isGenerating
       THEN \E fits \in MayFit(PersistedDesignState(next, props.artifactId, now)) :
               LET done == PersistState(item, PersistedDesignState(next, props.artifactId, now),
                                        fits)
               IN  /\ ls' = done.item
                   /\ drLast' = [restored |-> restored.result, purged |-> restored.purged,
                                 persist |-> done.outcome]
       ELSE /\ ls' = item
            /\ drLast' = [restored |-> restored.result, purged |-> restored.purged,
                         persist |-> "none"]
    /\ UNCHANGED <<rlVars, svcVars, genVars, stVars, idVars>>

\* The first render of the hook (useCreativeDesignState.ts:61-81): the
\* initializer of useState restores the draft; the persist effect runs after
\* the first render.  The application keeps one setting of enablePersistence.
Mount(artifactId) ==
    /\ ~mounted
    /\ mounted' = TRUE
    /\ LET props == [hookProps EXCEPT !.artifactId = artifactId]
           r == IF props.enablePersistence THEN RestorePersistedState(ls, artifactId, now)
                ELSE [result |-> Null, item |-> ls, purged |-> "none"]
           initial == IF r.result # Null THEN Merge(DEFAULT_STATE, r.result)
                      ELSE DEFAULT_STATE
       IN  RenderAndPersist(r.item, initial, props, TRUE, r)
    /\ UNCHANGED now

\* The component that uses the hook is removed; its state is dropped.
Unmount ==
    /\ mounted
    /\ mounted' = FALSE
    /\ hookState' = DEFAULT_STATE
    /\ drLast' = NoHookCall
    /\ UNCHANGED <<ls, hookProps, now>>
    /\ UNCHANGED <<requests, config, rlLast, admitLog, lastReject, svcVars, genVars, stVars, idVars>>

\* setState(prev => ({ ...prev, ...updates })) and the render that follows.
SetState(updates) ==
    /\ mounted
    /\ LET next == Merge(hookState, updates)
       IN  RenderAndPersist(ls, next, hookProps,
                            EffectDepsChanged(hookState, next, hookProps, hookProps), NoRestore)
    /\ UNCHANGED <<mounted, now>>

\* The setters (useCreativeDesignState.ts:112-143).
SetScreenshot(screenshot) == SetState([screenshot |-> screenshot])

SetPrompt(prompt) == SetState([prompt |-> prompt])

SetStyle(style) == SetState([style |-> style])

SetAspectRatio(aspectRatio) == SetState([aspectRatio |-> aspectRatio])

SetIsGenerating(isGenerating) == SetState([isGenerating |-> isGenerating])

SetGeneratedDesign(generatedDesign) ==
    SetState([generatedDesign |-> generatedDesign])

SetError(error) == SetState([error |-> error])

ClearError == SetState([error |-> Null])

\* clearResult (useCreativeDesignState.ts:154-160).
ClearResult == SetState([generatedDesign |-> Null, error |-> Null])

\* updateState (useCreativeDesignState.ts:163-165).
UpdateState(updates) == SetState(updates)

\* The partial states handed to updateState.
StateUpdates ==
    {[prompt |-> "modern poster", isGenerating |-> TRUE],
     [isGenerating |-> FALSE, generatedDesign |-> [id |-> "design-0-1"]]}

\* resetState (useCreativeDesignState.ts:146-151): setState(DEFAULT_STATE) is
\* queued, clearPersistedState removes the item, then the render follows.
ResetState ==
    /\ mounted
    /\ RenderAndPersist(IF hookProps.enablePersistence THEN Null ELSE ls,
                        DEFAULT_STATE, hookProps,
                        EffectDepsChanged(hookState, DEFAULT_STATE, hookProps, hookProps),
                        NoRestore)
    /\ UNCHANGED <<mounted, now>>

\* The component renders the hook for another artifact while it stays
\* mounted (CreativeDesignPanel.tsx:54-58 passes artifact.id).
Rerender(artifactId) ==
    /\ mounted
    /\ artifactId # hookProps.artifactId
    /\ LET props == [hookProps EXCEPT !.artifactId = artifactId]
       IN  RenderAndPersist(ls, hookState, props,
                            EffectDepsChanged(hookState, hookState, hookProps, props), NoRestore)
    /\ UNCHANGED <<mounted, now>>

\* Time passes.
DraftAdvance ==
    /\ now < MaxDraftTicks * (ExpirationMs \div 2)
    /\ now' = now + ExpirationMs \div 2
    /\ UNCHANGED <<requests, config, rlLast, admitLog, lastReject>>
    /\ UNCHANGED <<svcVars, genVars, stVars, idVars, drVars>>

InitDraft ==
    /\ requests = << >>
    /\ config = [maxRequests |-> ServiceMaxRequests, windowMs |-> ServiceWindowMs]
    /\ now = 0
    /\ rlLast = NoCall
    /\ admitLog = << >>
    /\ lastReject = NoReject
    /\ InitServiceIdle
    /\ InitGenerateIdle
    /\ InitStorageIdle
    /\ InitIdsIdle
    /\ ls = Null
    /\ mounted = FALSE
    /\ hookProps \in [artifactId : {"art-1"}, enablePersistence : BOOLEAN]
    /\ hookState = DEFAULT_STATE
    /\ drLast = NoHookCall

NextDraft ==
    \/ \E a \in Artifacts : Mount(a)
    \/ Unmount
    \/ \E v \in Screenshots : SetScreenshot(v)
    \/ \E v \in Prompts : SetPrompt(v)
    \/ \E v \in Styles : SetStyle(v)
    \/ \E v \in AspectRatios : SetAspectRatio(v)
    \/ \E v \in BOOLEAN : SetIsGenerating(v)
    \/ \E v \in GeneratedResults : SetGeneratedDesign(v)
    \/ \E v \in PanelErrors : SetError(v)
    \/ ClearError
    \/ ClearResult
    \/ \E u \in StateUpdates : UpdateState(u)
    \/ ResetState
    \/ \E a \in Artifacts : Rerender(a)
    \/ DraftAdvance

SpecDraft == InitDraft /\ [][NextDraft]_vars

---------------------------------------------------------------------------
(* Claims about useCreativeDesignState and its draft, checked under SpecDraft. *)

\* C16: when the hook is mounted for an artifact other than the one the
\* stored draft belongs to, nothing is restored (every draft field of the
\* state has its default) and the stored draft of the other artifact is gone.
C16_OwnerMismatch ==
    [][ (~mounted /\ mounted' /\ hookProps'.enablePersistence
           /\ ls # Null /\ ls.artifactId # hookProps'.artifactId) =>
          /\ drLast'.restored = Null
          /\ \A f \in DraftFields : hookState'[f] = DEFAULT_STATE[f]
          /\ ls' # ls
          /\ ls' # Null => ls'.artifactId # ls.artifactId ]_vars

\* C16 witness: a draft with a screenshot, stored for one artifact and not
\* expired, was found and removed when the hook was mounted for another.
C16_Witness ==
    /\ mounted
    /\ drLast.purged = "mismatch"
    /\ drLast.restored = Null
    /\ hookState.screenshot = Null
    /\ hookState.prompt = ""

\* C17 (as claimed): when the hook is mounted for the artifact of a stored
\* draft that is older than expirationHours, nothing is restored and
\* localStorage holds no draft afterwards.
C17_ExpiredLeavesEmpty ==
    [][ (~mounted /\ mounted' /\ hookProps'.enablePersistence
           /\ ls # Null /\ ls.artifactId = hookProps'.artifactId
           /\ now - ls.timestamp > ExpirationMs) =>
          /\ drLast'.restored = Null
          /\ \A f \in DraftFields : hookState'[f] = DEFAULT_STATE[f]
          /\ ls' = Null ]_vars

\* The fields of a stored draft (useCreativeDesignState.ts:44-51).
PersistedFields == DraftFields \cup {"artifactId", "timestamp"}

\* C18: a stored draft has exactly the fields screenshot, prompt, style,
\* aspectRatio, artifactId and timestamp; setIsGenerating, setGeneratedDesign,
\* setError, clearError and clearResult leave localStorage as it was; the
\* state of a freshly mounted hook has no generated design and no error, and
\* what was restored has only the four draft fields.
C18_OnlyDraftFieldsPersist ==
    [][ /\ ls' # Null => DOMAIN ls' = PersistedFields
        /\ ( /\ mounted /\ mounted'
             /\ \A f \in DraftFields : hookState'[f] = hookState[f]
             /\ \/ \E v \in BOOLEAN : SetIsGenerating(v)
                \/ \E v \in GeneratedResults : SetGeneratedDesign(v)
                \/ \E v \in PanelErrors : SetError(v)
                \/ ClearError
                \/ ClearResult ) => ls' = ls
        /\ (~mounted /\ mounted') =>
              /\ hookState'.generatedDesign = Null
              /\ hookState'.error = Null
              /\ drLast'.restored # Null => DOMAIN drLast'.restored = DraftFields ]_vars

\* C18 witness: a draft with a prompt was stored earlier, and the state now
\* holds a generated design and an error.
C18_Witness ==
    /\ mounted
    /\ ls # Null
    /\ ls.prompt # ""
    /\ ls.timestamp < now
    /\ hookState.generatedDesign # Null
    /\ hookState.error # Null

\* C19 (as claimed): when the persist effect hands over a draft whose
\* serialized size is above maxStorageSize, the draft is not stored, the
\* item stored before stays, and a DesignError of type STORAGE_ERROR reaches
\* the caller through the state of the hook.
C19_OversizeRejected ==
    [][ (mounted' /\ now' = now /\ drLast'.persist # "none"
           /\ SerializedLength(PersistedDesignState(hookState', hookProps'.artifactId, now))
                 > MaxStorageSize) =>
          /\ ls' = ls
          /\ hookState'.error # Null
          /\ hookState'.error.type = "STORAGE_ERROR" ]_vars

\* C20 (as claimed): after resetState with persistence enabled, and the
\* render it causes, localStorage holds no draft.
C20_ResetDeletesDraft ==
    [][ (ResetState /\ hookProps.enablePersistence) => ls' = Null ]_vars

\* C21 (as claimed): with persistence enabled, once an edit of screenshot,
\* prompt, style or aspectRatio has been processed (and localStorage took
\* the item), the stored draft has the current values of the four fields,
\* also when the edit was made while isGenerating was true.
C21_DraftFollowsEdits ==
    [][ (mounted /\ mounted' /\ now' = now
           /\ hookProps.enablePersistence /\ hookProps' = hookProps
           /\ (\E f \in DraftFields : hookState'[f] # hookState[f])
           /\ (\A f \in DOMAIN hookState \ DraftFields : hookState'[f] = hookState[f])
           /\ drLast'.persist # "swallowed") =>
          /\ ls' # Null
          /\ \A f \in DraftFields : ls'[f] = hookState'[f] ]_vars

---------------------------------------------------------------------------
(* Further claims about the RateLimiter, checked under SpecRateLimiter. *)

\* The admissions, since construction or reset(), whose timestamps lie in
\* the interval of length windowMs that starts at t.
AdmittedIn(t) ==
    {i \in DOMAIN admitLog : admitLog[i] >= t /\ admitLog[i] < t + config.windowMs}

\* C22: at non-decreasing times and without reset(), no interval of length
\* windowMs holds more than maxRequests admissions, and the stored list of
\* timestamps never has more than maxRequests entries.
C22_SlidingWindow ==
    /\ \A t \in 0..now : Cardinality(AdmittedIn(t)) <= config.maxRequests
    /\ Len(requests) <= config.maxRequests

\* C22 witness: the window was full, a call was rejected, and after the
\* oldest admission left the window another call was admitted.
C22_Witness ==
    /\ config.maxRequests > 1
    /\ Len(admitLog) > config.maxRequests
    /\ Len(requests) = config.maxRequests
    /\ rlLast.op = "checkLimit"
    /\ rlLast.recovered

\* C23: a checkLimit() that is rejected appends no timestamp: the list holds
\* the maxRequests admissions of the window, getRemainingRequests() is what
\* it was before the call, the wait is windowMs - (now - oldest) with
\* 0 < waitTime <= windowMs, and a rejection that follows another one
\* announces the same instant for the next admission.
C23_RejectionRecordsNothing ==
    [][ (CheckLimit /\ ~rlLast'.ok) =>
          /\ Len(requests') = config.maxRequests
          /\ requests' = Prune(requests, now, config)
          /\ RemainingAt(requests', now, config) = RemainingAt(requests, now, config)
          /\ rlLast'.waitTime = config.windowMs - (now - requests'[1])
          /\ rlLast'.waitTime > 0
          /\ rlLast'.waitTime <= config.windowMs
          /\ lastReject # NoReject =>
                lastReject.at + lastReject.waitTime = now + rlLast'.waitTime ]_vars

\* C23 witness: a call was rejected some time after the last admission.
C23_Witness ==
    /\ rlLast.op = "checkLimit"
    /\ ~rlLast.ok
    /\ rlLast.at > admitLog[Len(admitLog)]
    /\ rlLast.waitTime < config.windowMs
    /\ Len(requests) = config.maxRequests

---------------------------------------------------------------------------
(* retryWithBackoff for any maxAttempts (part_001:501-539), as              *)
(* generateCreativeDesign runs it: every attempt races the external call    *)
(* with a timer, and timers fire.                                           *)

MaxAttemptsBound == 3   \* maxAttempts ranges over 1..MaxAttemptsBound

InitRetry ==
    /\ requests = << >>
    /\ config = [maxRequests |-> ServiceMaxRequests, windowMs |-> ServiceWindowMs]
    /\ now = 0
    /\ rlLast = NoCall
    /\ admitLog = << >>
    /\ lastReject = NoReject
    /\ InitServiceIdle
    /\ genAi = TRUE
    /\ genPc = "idle"
    /\ genReq = NoRequest
    /\ retryCfg \in [maxAttempts : 1..MaxAttemptsBound, baseDelay : {RETRY_DELAY_MS}]
    /\ attempt = 0
    /\ call = "none"
    /\ orphans = 0
    /\ opCalls = 0
    /\ apiCalls = 0
    /\ delays = << >>
    /\ attemptErrors = << >>
    /\ runOutcome = Unsettled
    /\ genResult = Unsettled
    /\ InitStorageIdle
    /\ InitIdsIdle
    /\ InitHookIdle

\* An attempt never stays pending: a refused call rejects at once, the timer
\* of createTimeoutPromise fires unless the call settled before it
\* (part_001:156-164, 490-496), and the timer of a backoff fires (part_001:534).
SpecRetry ==
    /\ InitRetry
    /\ [][NextGenerate]_vars
    /\ WF_vars(CallRefused)
    /\ WF_vars(CallTimesOut)
    /\ WF_vars(BackoffEnds)

\* C24: for every maxAttempts >= 1, retryWithBackoff invokes the operation
\* at least once and at most maxAttempts times and then settles; when all
\* maxAttempts attempts failed retryably it rejects with the failure of the
\* last attempt, having waited after every attempt but the last.
C24_AttemptBudget ==
    (genPc \in {"attempt", "backoff"}) ~>
        /\ genPc = "done"
        /\ opCalls >= 1
        /\ opCalls <= retryCfg.maxAttempts
        /\ (/\ Len(attemptErrors) = retryCfg.maxAttempts
            /\ \A k \in DOMAIN attemptErrors : ~ShouldAbort(attemptErrors[k])) =>
              /\ opCalls = retryCfg.maxAttempts
              /\ runOutcome = Rejected(attemptErrors[Len(attemptErrors)])
              /\ Len(delays) = retryCfg.maxAttempts - 1

\* C24 witness: with maxAttempts = 2, both attempts failed retryably.
C24_Witness ==
    /\ retryCfg.maxAttempts = 2
    /\ genPc = "done"
    /\ opCalls = 2
    /\ Len(attemptErrors) = 2
    /\ runOutcome = Rejected(attemptErrors[2])
    /\ Len(delays) = 1

---------------------------------------------------------------------------
\* The attempts that ended because the timer of createTimeoutPromise fired.
TimedOut == {k \in DOMAIN attemptErrors : attemptErrors[k] = TimeoutFailure(API_TIMEOUT_MS)}

\* C25: when the timeout of an attempt fires first, the attempt counts as
\* failed with the timeout failure; the later completion of its external
\* call changes nothing of the run (no outcome, no attempt more or fewer),
\* and the outcome is set only by the settling of the race of the attempt
\* in progress: a rejection is the failure of the last attempt made.
C25_OrphanDiscarded ==
    [][ /\ (orphans' > orphans) =>
              /\ genPc = "attempt" /\ call = "pending"
              /\ attemptErrors' = Append(attemptErrors, TimeoutFailure(API_TIMEOUT_MS))
              /\ opCalls' = opCalls
        /\ (orphans' < orphans) =>
              UNCHANGED <<genPc, attempt, call, opCalls, apiCalls, delays, attemptErrors,
                          runOutcome, genResult>>
        /\ (runOutcome' # runOutcome) =>
              /\ genPc = "attempt" /\ genPc' = "done"
              /\ orphans' >= orphans
              /\ opCalls' = opCalls /\ opCalls = attempt
              /\ runOutcome'.status = "rejected" =>
                    /\ Len(attemptErrors') = opCalls
                    /\ runOutcome' = Rejected(attemptErrors'[opCalls])
              /\ runOutcome'.status = "resolved" => Len(attemptErrors) = opCalls - 1
        /\ (opCalls' # opCalls) =>
              /\ opCalls' = opCalls + 1
              /\ orphans' = orphans
              /\ genPc \in {"idle", "backoff"} ]_vars

\* C25 witness: the call of a timed-out attempt has settled while a later
\* attempt or a backoff wait was in progress.
C25_Witness ==
    /\ genPc \in {"attempt", "backoff"}
    /\ Cardinality(TimedOut) > orphans

---------------------------------------------------------------------------
(* The ids of generated designs (part_001:166-188, 544-546;                 *)
(* imageUtils.ts:198-200) and the hand-over of the designs to               *)
(* DesignStorageService.saveDesign.                                         *)

MaxGenerated == 2   \* at most this many generate calls succeed

\* A generate call succeeds: the design gets the id
\* design-<Date.now()>-<Math.random() in base 36> and the current time.
GenerateSucceeds(artifactId, rand) ==
    /\ Len(generated) < MaxGenerated
    /\ generated' = Append(generated,
                           GeneratedDesign(GenerateDesignId(now, rand), artifactId))
    /\ UNCHANGED <<savedCount, rlVars, svcVars, genVars, stVars, drVars>>

\* The caller saves the next generated design: designStorage.saveDesign(design).
SaveGenerated ==
    /\ savedCount < Len(generated)
    /\ savedCount' = savedCount + 1
    /\ SaveDesignStep(generated[savedCount + 1])
    /\ UNCHANGED generated

InitIds ==
    /\ requests = << >>
    /\ config = [maxRequests |-> ServiceMaxRequests, windowMs |-> ServiceWindowMs]
    /\ now = 0
    /\ rlLast = NoCall
    /\ admitLog = << >>
    /\ lastReject = NoReject
    /\ InitServiceIdle
    /\ InitGenerateIdle
    /\ InitStorageIdle
    /\ InitIdsIdle
    /\ InitHookIdle

NextIds ==
    \/ \E artifactId \in Artifacts, rand \in RandomParts : GenerateSucceeds(artifactId, rand)
    \/ SaveGenerated
    \/ StorageTick

SpecIds == InitIds /\ [][NextIds]_vars

\* C26 (as claimed): any two designs of two successful generate calls have
\* distinct ids, also when both calls complete in the same millisecond, and
\* no saveDesign of a generated design fails.
C26_FreshUniqueIds ==
    /\ \A i, j \in DOMAIN generated : i # j => generated[i].id # generated[j].id
    /\ stLast.op = "saveDesign" => stLast.ok

---------------------------------------------------------------------------
(* Further claims about the draft of useCreativeDesignState, checked under  *)
(* SpecDraft.                                                               *)

\* C27 (as claimed): the restore of a mount returns a stored draft only while
\* now - timestamp < expirationHours * 3600000; when the difference is that
\* long or longer, the equal case included, it returns null and removes the
\* item.
C27_ValidityBoundary ==
    [][ (~mounted /\ mounted' /\ hookProps'.enablePersistence /\ ls # Null) =>
          /\ drLast'.restored # Null => now - ls.timestamp < ExpirationMs
          /\ now - ls.timestamp >= ExpirationMs =>
                (drLast'.restored = Null /\ drLast'.purged # "none") ]_vars

\* C28 (as claimed): a mount for one artifact, with its restore and its
\* persist effect, neither overwrites nor removes an unexpired draft stored
\* for another artifact.
C28_KeyedByArtifact ==
    [][ (~mounted /\ mounted' /\ hookProps'.enablePersistence
           /\ ls # Null /\ ~IsExpired(ls, now)
           /\ ls.artifactId # hookProps'.artifactId) =>
          ls' = ls ]_vars

\* C29 (as claimed): the timestamp of the stored draft changes only when a
\* draft field of the stored draft changes; a mount that restores an
\* unexpired draft leaves the stored timestamp as it was.
C29_RestoreKeepsSaveTime ==
    [][ /\ (~mounted /\ mounted' /\ drLast'.restored # Null) =>
              (ls' # Null /\ ls'.timestamp = ls.timestamp)
        /\ (ls # Null /\ ls' # Null /\ ls'.artifactId = ls.artifactId
              /\ ls'.timestamp # ls.timestamp) =>
              \E f \in DraftFields : ls'[f] # ls[f] ]_vars

\* C30 (as claimed): when the artifactId of the mounted hook changes, the
\* draft fields the user entered under the former artifact are not stored
\* as the draft of the new one.
C30_OwnershipIntegrity ==
    [][ (mounted /\ mounted' /\ hookProps'.artifactId # hookProps.artifactId
           /\ \E f \in DraftFields : hookState[f] # DEFAULT_STATE[f]) =>
          ~(/\ ls' # Null
            /\ ls'.artifactId = hookProps'.artifactId
            /\ \A f \in DraftFields : ls'[f] = hookState[f]) ]_vars

=============================================================================
